---- MODULE Spec2Model ----
(***************************************************************************)
(* Model of script.js, the interactivity script of the portfolio page:     *)
(* script evaluation and the DOMContentLoaded initialisers, the modal      *)
(* lightbox, the two click listeners on the navigation links, the scroll   *)
(* listeners (scroll spy, navbar shadow) and the language toggle.          *)
(*                                                                         *)
(* Text is a sequence of Unicode code points where the script builds it    *)
(* (the modal's metadata line) and a tagged tuple where it only copies it. *)
(* The document (which elements exist, the items' attributes, the page     *)
(* geometry) is the script's input.                                        *)
(***************************************************************************)
EXTENDS Integers, Sequences, FiniteSets

VARIABLES
    dom,          \* the looked-up elements that exist in the document
    N,            \* items.length, fixed when the script is evaluated (l.234)
    evalDone,     \* the script's top-level code has run (to its end or to a fault)
    evalFault,    \* line of the uncaught fault that ended evaluation, 0 if none
    domReady,     \* DOMContentLoaded has been dispatched
    listeners,    \* registered event listeners, in registration order
    thrown,       \* lines at which listeners of the last dispatched event threw
    currentIndex, \* let currentIndex (l.233)
    modalActive,  \* modal.classList contains "active"
    modalImgSrc,  \* modalImg.src
    modalTitle,   \* modalTitle.textContent
    modalMeta,    \* modalMeta.textContent
    navStart,     \* history: index opened by the last item click
    navOps,       \* history: prev/next operations since that click
    scrollY,      \* window.scrollY
    scrollReq,    \* the last scroll request made by a listener, <<>> if none
    boxShadow,    \* navbar.style.boxShadow
    fontWeight,   \* link.style.fontWeight of every nav link
    currentLang,  \* let currentLang (l.307)
    toggleText,   \* langToggle.textContent
    elText,       \* textContent of every [data-en] element
    langHist      \* history: elText before each of the last two toggle clicks

loadVars   == <<dom, N, evalDone, evalFault, domReady, listeners>>
modalVars  == <<currentIndex, modalActive, modalImgSrc, modalTitle, modalMeta>>
histVars   == <<navStart, navOps>>
scrollVars == <<scrollY, scrollReq, boxShadow, fontWeight>>
langVars   == <<currentLang, toggleText, elText, langHist>>
vars == <<dom, N, evalDone, evalFault, domReady, listeners, thrown,
          currentIndex, modalActive, modalImgSrc, modalTitle, modalMeta,
          navStart, navOps, scrollY, scrollReq, boxShadow, fontWeight,
          currentLang, toggleText, elText, langHist>>

(***************************************************************************)
(* Bounds and the document.                                                *)
(***************************************************************************)
MaxItems == 3

\* Elements the script looks up once and dereferences without a null check.
RootElements ==
    {"art-modal", "modal-close", "modal-prev", "modal-next", "modal-overlay",
     "lang-toggle"}

\* The work items' attributes: data-title, img src, data-medium, data-year.
ItemTitle(i) == <<"data-title", i>>
ItemImg(i) == <<"img.src", i>>
ItemMedium(i) == IF i % 2 = 0 THEN <<79, 105, 108>> ELSE <<73, 110, 107>>
ItemYear(i) == <<50, 48, 50, 48 + i>>

\* The result of x % 0 in JavaScript; no array index equals it.
NaN == -1000

\* JavaScript's %: the remainder takes the sign of the dividend.
JsRem(a, n) ==
    IF n = 0 THEN NaN
    ELSE IF a >= 0 THEN a % n ELSE 0 - ((0 - a) % n)

(***************************************************************************)
(* Script evaluation: the top-level statements that register a listener or *)
(* dereference a looked-up element, in source order.                       *)
(***************************************************************************)
\* The script with the language toggle's listener registered only if the
\* control exists.
ScriptGuardedToggle ==
    << [line |-> 200, needs |-> {}, adds |-> <<"DOMContentLoaded">>],
       [line |-> 246, needs |-> {}, adds |-> <<"itemClick">>],
       [line |-> 249, needs |-> {"modal-close"}, adds |-> <<"closeClick">>],
       [line |-> 255, needs |-> {"modal-prev"}, adds |-> <<"prevClick">>],
       [line |-> 256, needs |-> {"modal-next"}, adds |-> <<"nextClick">>],
       [line |-> 260, needs |-> {"modal-overlay"}, adds |-> <<>>],
       [line |-> 281, needs |-> {}, adds |-> <<"leftClick">>],
       [line |-> 282, needs |-> {}, adds |-> <<"rightClick">>],
       [line |-> 285, needs |-> {}, adds |-> <<"keydown">>],
       [line |-> 296, needs |-> {}, adds |-> <<"navScrollIntoView">>],
       [line |-> 309, needs |-> {},
        adds |-> IF "lang-toggle" \in dom THEN <<"langClick">> ELSE <<>>] >>

Script ==
    << [line |-> 200, needs |-> {}, adds |-> <<"DOMContentLoaded">>],
       [line |-> 246, needs |-> {}, adds |-> <<"itemClick">>],
       [line |-> 249, needs |-> {"modal-close"}, adds |-> <<"closeClick">>],
       [line |-> 255, needs |-> {"modal-prev"}, adds |-> <<"prevClick">>],
       [line |-> 256, needs |-> {"modal-next"}, adds |-> <<"nextClick">>],
       [line |-> 260, needs |-> {"modal-overlay"}, adds |-> <<>>],
       [line |-> 281, needs |-> {}, adds |-> <<"leftClick">>],
       [line |-> 282, needs |-> {}, adds |-> <<"rightClick">>],
       [line |-> 285, needs |-> {}, adds |-> <<"keydown">>],
       [line |-> 296, needs |-> {}, adds |-> <<"navScrollIntoView">>],
       [line |-> 309, needs |-> {"lang-toggle"}, adds |-> <<"langClick">>] >>

\* Runs statements k.. of the script; a statement that dereferences a missing
\* element throws, and nothing after it runs.
RECURSIVE RunScript(_, _)
RunScript(k, ls) ==
    IF k > Len(Script) THEN [listeners |-> ls, fault |-> 0]
    ELSE IF ~(Script[k].needs \subseteq dom)
         THEN [listeners |-> ls, fault |-> Script[k].line]
         ELSE RunScript(k + 1, ls \o Script[k].adds)

Registered(h) == \E k \in 1..Len(listeners) : listeners[k] = h

EvalScript ==
    /\ ~evalDone
    /\ LET r == RunScript(1, <<>>) IN
        /\ listeners' = r.listeners
        /\ evalFault' = r.fault
    /\ evalDone' = TRUE
    /\ thrown' = {}
    /\ UNCHANGED <<dom, N, domReady>>
    /\ UNCHANGED <<modalVars, histVars, scrollVars, langVars>>

\* The listeners the DOMContentLoaded handler registers (l.202-207).
ReadyListeners == <<"navSmoothScroll", "scrollSpy", "navbarShadow">>

DOMContentLoaded ==
    /\ evalDone
    /\ ~domReady
    /\ Registered("DOMContentLoaded")
    /\ listeners' = listeners \o ReadyListeners
    /\ domReady' = TRUE
    /\ thrown' = {}
    /\ UNCHANGED <<dom, N, evalDone, evalFault>>
    /\ UNCHANGED <<modalVars, histVars, scrollVars, langVars>>

(***************************************************************************)
(* Modal lightbox.                                                         *)
(***************************************************************************)
\* The separator of the template literal of l.240, as the file holds it:
\* space, U+00E2, U+20AC, U+201D, space.
MetaSeparator == <<32, 226, 8364, 8221, 32>>

MetaText(i) == ItemMedium(i) \o MetaSeparator \o ItemYear(i)

\* openModal with currentIndex assigned before items[index] is dereferenced.
OpenModalAssignFirst(index) ==
    IF index \notin 0..(N - 1)
    THEN /\ thrown' = {238}
         /\ currentIndex' = index
         /\ UNCHANGED <<modalActive, modalImgSrc, modalTitle, modalMeta>>
    ELSE /\ modalImgSrc' = ItemImg(index)
         /\ modalTitle' = ItemTitle(index)
         /\ modalMeta' = MetaText(index)
         /\ currentIndex' = index
         /\ IF "art-modal" \in dom
            THEN modalActive' = TRUE /\ thrown' = {}
            ELSE modalActive' = modalActive /\ thrown' = {242}

\* openModal(index): items[index] is undefined outside 0..N-1 and the first
\* dereference throws; a missing modal container throws at the last line.
OpenModal(index) ==
    IF index \notin 0..(N - 1)
    THEN /\ thrown' = {238}
         /\ UNCHANGED modalVars
    ELSE /\ modalImgSrc' = ItemImg(index)
         /\ modalTitle' = ItemTitle(index)
         /\ modalMeta' = MetaText(index)
         /\ currentIndex' = index
         /\ IF "art-modal" \in dom
            THEN modalActive' = TRUE /\ thrown' = {}
            ELSE modalActive' = modalActive /\ thrown' = {242}

CloseModal(line) ==
    /\ IF "art-modal" \in dom
       THEN modalActive' = FALSE /\ thrown' = {}
       ELSE modalActive' = modalActive /\ thrown' = {line}
    /\ UNCHANGED <<currentIndex, modalImgSrc, modalTitle, modalMeta>>

\* showPrev's index without the "+ items.length".
PrevIndexNoWrap == JsRem(currentIndex - 1, N)
PrevIndex == JsRem(currentIndex - 1 + N, N)
NextIndex == JsRem(currentIndex + 1, N)

\* History of the navigation since the last item click: kept while it is a
\* prefix of <<prev, next>> or a run of at most N nexts.
Lost == <<"lost">>
Tracked(ops) ==
    \/ ops \in {<<>>, <<"prev">>, <<"prev", "next">>}
    \/ Len(ops) <= N /\ \A k \in 1..Len(ops) : ops[k] = "next"
Record(op) ==
    /\ navOps' = IF navOps # Lost /\ Tracked(Append(navOps, op))
                 THEN Append(navOps, op) ELSE Lost
    /\ navStart' = IF navOps' = Lost THEN 0 ELSE navStart

ShowPrev == OpenModal(PrevIndex) /\ Record("prev")
ShowNext == OpenModal(NextIndex) /\ Record("next")

\* Input events are delivered once the document has loaded: the script is
\* evaluated and DOMContentLoaded dispatched while the page is being parsed.
\* An event runs the listeners registered for it, each to completion.
ItemClick(i) ==
    /\ domReady
    /\ Registered("itemClick")
    /\ i \in 0..(N - 1)
    /\ OpenModal(i)
    /\ navStart' = i
    /\ navOps' = <<>>
    /\ UNCHANGED <<loadVars, scrollVars, langVars>>

CloseClick ==
    /\ domReady
    /\ Registered("closeClick")
    /\ CloseModal(249)
    /\ navStart' = 0
    /\ navOps' = Lost
    /\ UNCHANGED <<loadVars, scrollVars, langVars>>

PrevClick ==
    /\ domReady
    /\ Registered("prevClick")
    /\ ShowPrev
    /\ UNCHANGED <<loadVars, scrollVars, langVars>>

NextClick ==
    /\ domReady
    /\ Registered("nextClick")
    /\ ShowNext
    /\ UNCHANGED <<loadVars, scrollVars, langVars>>

OverlayLeftClick ==
    /\ domReady
    /\ Registered("leftClick")
    /\ ShowPrev
    /\ UNCHANGED <<loadVars, scrollVars, langVars>>

OverlayRightClick ==
    /\ domReady
    /\ Registered("rightClick")
    /\ ShowNext
    /\ UNCHANGED <<loadVars, scrollVars, langVars>>

\* The keydown listener without its first line, the check that the modal is
\* open.
KeyDownNoActiveCheck(key) ==
    /\ domReady
    /\ Registered("keydown")
    /\ IF "art-modal" \notin dom
       THEN thrown' = {286} /\ UNCHANGED <<modalVars, histVars>>
       ELSE IF key = "ArrowLeft" THEN ShowPrev
       ELSE IF key = "ArrowRight" THEN ShowNext
       ELSE IF key = "Escape"
            THEN CloseModal(289) /\ navStart' = 0 /\ navOps' = Lost
       ELSE thrown' = {} /\ UNCHANGED <<modalVars, histVars>>
    /\ UNCHANGED <<loadVars, scrollVars, langVars>>

Keys == {"ArrowLeft", "ArrowRight", "Escape", "Enter"}

KeyDown(key) ==
    /\ domReady
    /\ Registered("keydown")
    /\ IF "art-modal" \notin dom
       THEN thrown' = {286} /\ UNCHANGED <<modalVars, histVars>>
       ELSE IF ~modalActive
       THEN thrown' = {} /\ UNCHANGED <<modalVars, histVars>>
       ELSE IF key = "ArrowLeft" THEN ShowPrev
       ELSE IF key = "ArrowRight" THEN ShowNext
       ELSE IF key = "Escape"
            THEN CloseModal(289) /\ navStart' = 0 /\ navOps' = Lost
       ELSE thrown' = {} /\ UNCHANGED <<modalVars, histVars>>
    /\ UNCHANGED <<loadVars, scrollVars, langVars>>

(***************************************************************************)
(* Navigation links, scroll spy and navbar shadow.                         *)
(***************************************************************************)
\* The page: section elements in document order, with offsetTop and
\* offsetHeight, and the navbar's offsetHeight.
Sections == <<"hero", "about", "work">>
SectionIds == {Sections[k] : k \in 1..Len(Sections)}
OffsetTop(s) == CASE s = "hero" -> 0 [] s = "about" -> 400 [] OTHER -> 700
OffsetHeight(s) == IF s = "hero" THEN 400 ELSE 300
NavHeight == 70

\* The nav links and their href; no element has the id "missing".
NavLinks == {"linkAbout", "linkMissing"}
Href(l) == IF l = "linkAbout" THEN "#about" ELSE "#missing"

Null == "null"

\* document.querySelector of an id selector.
QuerySelector(sel) ==
    IF \E s \in SectionIds : "#" \o s = sel
    THEN CHOOSE s \in SectionIds : "#" \o s = sel
    ELSE Null

\* The target position without the navbar's height.
TargetPositionNoNav(s) == OffsetTop(s)

\* targetSection.offsetTop - navHeight (l.70-71).
TargetPosition(s) == OffsetTop(s) - NavHeight

\* updateActiveLink(activeLink) (l.125-131).
UpdateActiveLink(active) ==
    [l \in NavLinks |-> IF l = active THEN "700" ELSE "500"]

\* One click listener of a nav link, applied to the scroll request, the font
\* weights and the faults so far.
NavListener(h, l, st) ==
    LET target == QuerySelector(Href(l)) IN
    IF h = "navScrollIntoView"
    THEN IF target = Null
         THEN [st EXCEPT !.thrown = @ \cup {299}]
         ELSE [st EXCEPT !.req = <<OffsetTop(target)>>]
    ELSE IF h = "navSmoothScroll"
    THEN IF target # Null
         THEN [st EXCEPT !.req = <<TargetPosition(target)>>,
                         !.fw = UpdateActiveLink(l)]
         ELSE st
    ELSE st

\* The listeners run in registration order; one that throws does not stop
\* the ones after it.
RECURSIVE DispatchNavClick(_, _, _)
DispatchNavClick(k, l, st) ==
    IF k > Len(listeners) THEN st
    ELSE DispatchNavClick(k + 1, l, NavListener(listeners[k], l, st))

NavClick(l) ==
    /\ domReady
    /\ Registered("navScrollIntoView") \/ Registered("navSmoothScroll")
    /\ LET st == DispatchNavClick(1, l,
                    [req |-> scrollReq, fw |-> fontWeight, thrown |-> {}]) IN
        /\ scrollReq' = st.req
        /\ fontWeight' = st.fw
        /\ thrown' = st.thrown
    /\ UNCHANGED <<scrollY, boxShadow>>
    /\ UNCHANGED <<loadVars, modalVars, histVars, langVars>>

\* Scroll spy (l.100-118): the last section in document order whose band
\* holds y, "" if none.
SpyLead == 100
InBand(s, y) ==
    /\ y >= OffsetTop(s) - NavHeight - SpyLead
    /\ y < OffsetTop(s) - NavHeight - SpyLead + OffsetHeight(s)
RECURSIVE CurrentSection(_, _, _)
CurrentSection(k, y, cur) ==
    IF k > Len(Sections) THEN cur
    ELSE CurrentSection(k + 1, y, IF InBand(Sections[k], y) THEN Sections[k] ELSE cur)
SpyWeights(y) ==
    [l \in NavLinks |->
        IF Href(l) = "#" \o CurrentSection(1, y, "") THEN "700" ELSE "500"]

\* Navbar shadow (l.144-150).
ShadowThreshold == 50
ShadowStyle == "0 2px 10px rgba(0, 0, 0, 0.05)"
ShadowFor(y) == IF y > ShadowThreshold THEN ShadowStyle ELSE "none"

\* Scroll offsets the page is observed at: both sides of the shadow threshold
\* and both scroll destinations of a click on the link to "about".
Positions ==
    {0, ShadowThreshold, ShadowThreshold + 1,
     TargetPosition("about"), OffsetTop("about")}

\* The viewport scrolls to y (by the user or by a requested animation) and the
\* scroll event is dispatched to the registered scroll listeners.
Scroll(y) ==
    /\ y # scrollY
    /\ scrollY' = y
    /\ fontWeight' = IF Registered("scrollSpy") THEN SpyWeights(y) ELSE fontWeight
    /\ boxShadow' = IF Registered("navbarShadow") THEN ShadowFor(y) ELSE boxShadow
    /\ thrown' = {}
    /\ UNCHANGED scrollReq
    /\ UNCHANGED <<loadVars, modalVars, histVars, langVars>>

(***************************************************************************)
(* Language toggle.                                                        *)
(***************************************************************************)
\* The [data-en] elements; "caption" has no data-fr attribute.
TaggedEls == {"heading", "caption"}
HasAttr(e, lang) == lang = "en" \/ e # "caption"
Undefined == <<"undefined">>
Dataset(e, lang) == IF HasAttr(e, lang) THEN <<"data-" \o lang, e>> ELSE Undefined
\* The text the markup gives an element when it is not its data-en text.
Markup(e) == <<"markup", e>>

\* Assigning textContent: undefined is converted to the empty string.
TextContent(v) == IF v = Undefined THEN <<>> ELSE v

\* The flip with an assignment in the condition: "en" is truthy.
FlipLangAlwaysFr(lang) == "fr"
\* The label naming the active language instead of the other one.
ToggleLabelActive(lang) == IF lang = "en" THEN "EN" ELSE "FR"

FlipLang(lang) == IF lang = "en" THEN "fr" ELSE "en"
ToggleLabel(lang) == IF lang = "en" THEN "FR" ELSE "EN"

LangClick ==
    /\ domReady
    /\ Registered("langClick")
    /\ currentLang' = FlipLang(currentLang)
    /\ toggleText' = ToggleLabel(currentLang')
    /\ elText' = [e \in TaggedEls |-> TextContent(Dataset(e, currentLang'))]
    /\ langHist' = IF Len(langHist) < 2 THEN Append(langHist, elText)
                   ELSE <<langHist[2], elText>>
    /\ thrown' = {}
    /\ UNCHANGED <<loadVars, modalVars, histVars, scrollVars>>

(***************************************************************************)
(* Initial states and the specifications.                                  *)
(***************************************************************************)
\* The parsed document before the script runs: d are the looked-up elements
\* present, ys the offsets the page may already be scrolled to; a tagged
\* element shows its data-en text or other markup text.
InitWith(d, ys) ==
    /\ dom = d
    /\ N \in 0..MaxItems
    /\ evalDone = FALSE
    /\ evalFault = 0
    /\ domReady = FALSE
    /\ listeners = <<>>
    /\ thrown = {}
    /\ currentIndex = 0
    /\ modalActive = FALSE
    /\ modalImgSrc = <<>>
    /\ modalTitle = <<>>
    /\ modalMeta = <<>>
    /\ navStart = 0
    /\ navOps = Lost
    /\ scrollY \in ys
    /\ scrollReq = <<>>
    /\ boxShadow = ""
    /\ fontWeight = [l \in NavLinks |-> ""]
    /\ currentLang = "en"
    /\ toggleText = "html"
    /\ elText \in {[e \in TaggedEls |->
                        IF e \in m THEN Markup(e) ELSE Dataset(e, "en")] :
                    m \in SUBSET TaggedEls}
    /\ langHist = <<>>

Init == InitWith(RootElements, Positions)

Next ==
    \/ EvalScript
    \/ DOMContentLoaded
    \/ \E i \in 0..MaxItems : ItemClick(i)
    \/ CloseClick
    \/ PrevClick
    \/ NextClick
    \/ OverlayLeftClick
    \/ OverlayRightClick
    \/ \E key \in Keys : KeyDown(key)
    \/ \E l \in NavLinks : NavClick(l)
    \/ \E y \in Positions : Scroll(y)
    \/ LangClick

Spec == Init /\ [][Next]_vars

\* Loading on a document that may lack any of the looked-up elements, and
\* the events whose listeners dereference them.
LoadInit == \E d \in SUBSET RootElements : InitWith(d, {0})
LoadNext ==
    \/ EvalScript
    \/ DOMContentLoaded
    \/ \E i \in 0..MaxItems : ItemClick(i)
    \/ CloseClick
    \/ PrevClick
    \/ NextClick
    \/ OverlayLeftClick
    \/ OverlayRightClick
    \/ \E key \in Keys : KeyDown(key)
    \/ LangClick
LoadSpec == LoadInit /\ [][LoadNext]_vars

(***************************************************************************)
(* Properties.                                                             *)
(***************************************************************************)
\* The modal shows item i: open at i with item i's image, title and meta line.
OpenAt(i) ==
    /\ modalActive
    /\ currentIndex = i
    /\ modalImgSrc = ItemImg(i)
    /\ modalTitle = ItemTitle(i)
    /\ modalMeta = MetaText(i)

Nexts(n) == [k \in 1..n |-> "next"]

\* C1 as stated: in every reachable state from script evaluation on,
\* 0 <= currentIndex < N, for every N of the range, N = 0 included.
C1_IndexWithinItems == evalDone => currentIndex \in 0..(N - 1)

\* C1 as amended: with N >= 1 items 0 <= currentIndex < N in every reachable
\* state; with no items currentIndex keeps its initial value 0.
C1_IndexWithinItemsOrInitial ==
    IF N >= 1 THEN currentIndex \in 0..(N - 1) ELSE currentIndex = 0

C1_WrappedToLast ==
    /\ N >= 2
    /\ navStart = 0
    /\ navOps = <<"prev">>
    /\ currentIndex = N - 1

\* C2: for N >= 1 and 0 <= i < N, from open(i) prev then next is open(i)
\* again, and so is next applied N times.
C2_RoundTripAndCycle ==
    (N >= 1 /\ (navOps = <<"prev", "next">> \/ navOps = Nexts(N)))
        => OpenAt(navStart)

C2_CycleClosed ==
    /\ N >= 3
    /\ navOps = Nexts(N)
    /\ navStart = 1
    /\ currentIndex = 1

\* C3: whenever the modal is open it shows the current item's image and title
\* and the meta line "<medium> <em dash U+2014> <year>" of that item.
C3_MetaIsMediumEmDashYear ==
    modalActive =>
        /\ modalImgSrc = ItemImg(currentIndex)
        /\ modalTitle = ItemTitle(currentIndex)
        /\ modalMeta = ItemMedium(currentIndex) \o <<32, 8212, 32>>
                          \o ItemYear(currentIndex)

\* C4: a click on a nav link whose fragment matches no element changes neither
\* the scroll position, the scroll request nor any link's font weight, and no
\* listener throws.
C4_MissingTargetIsSilent ==
    [][\A l \in NavLinks :
          (QuerySelector(Href(l)) = Null /\ NavClick(l)) =>
              /\ scrollY' = scrollY
              /\ scrollReq' = scrollReq
              /\ fontWeight' = fontWeight
              /\ thrown' = {}]_vars

\* C5 as stated: after two clicks on the toggle every tagged element shows the
\* text it showed before the two clicks, the text of page load included.
C5_TwoTogglesRestoreText == Len(langHist) = 2 => elText = langHist[1]

\* C5 as amended: after two clicks every tagged element shows the text it
\* showed before them, except an element that still showed markup text other
\* than its data-en text: it shows its data-en text.
C5_TwoTogglesRestoreAttributeText ==
    Len(langHist) = 2 =>
        \A e \in TaggedEls :
            \/ elText[e] = langHist[1][e]
            \/ /\ langHist[1][e] = Markup(e)
               /\ elText[e] = <<"data-en", e>>

C5_BackToFrench ==
    /\ Len(langHist) = 2
    /\ currentLang = "fr"
    /\ elText = langHist[1]
    /\ elText["heading"] = <<"data-fr", "heading">>

\* C6 as stated: with the modal container or the language toggle absent, script
\* evaluation ends in a fault; it never finishes with the fault still to come.
C6_MissingRootFaultsAtEval ==
    (evalDone /\ ~({"art-modal", "lang-toggle"} \subseteq dom)) => evalFault # 0

\* C6 as amended: evaluation ends in a fault exactly when the close, prev or
\* next control, the overlay or the language toggle is absent, and then no
\* statement from the faulting line on has registered its listener; an absent
\* modal container faults only in the listeners that dereference it.
C6_FaultsAtEvalUnlessOnlyModalRoot ==
    evalDone =>
        /\ evalFault # 0 <=> ~((RootElements \ {"art-modal"}) \subseteq dom)
        /\ \A k \in 1..Len(Script) :
              (evalFault # 0 /\ Script[k].line >= evalFault) =>
                  \A j \in 1..Len(Script[k].adds) : ~Registered(Script[k].adds[j])
        /\ evalFault = 0 =>
              \A k \in 1..Len(Script) :
                  \A j \in 1..Len(Script[k].adds) : Registered(Script[k].adds[j])
        /\ thrown \cap {242, 249, 286, 289} # {} => "art-modal" \notin dom

C6_DeferredModalFault ==
    /\ evalDone
    /\ evalFault = 0
    /\ "art-modal" \notin dom
    /\ Registered("langClick")
    /\ 242 \in thrown

\* C7: after the click listeners of a nav link whose target exists have run in
\* registration order, the scroll request in effect is the section's top minus
\* the navbar's height.
C7_ClickScrollsBelowHeader ==
    [][\A l \in NavLinks :
          (QuerySelector(Href(l)) # Null /\ NavClick(l)) =>
              scrollReq' = <<OffsetTop(QuerySelector(Href(l))) - NavHeight>>]_vars

C7_RequestBelowHeader ==
    /\ scrollReq = <<OffsetTop("about") - NavHeight>>
    /\ fontWeight["linkAbout"] = "700"
    /\ thrown = {}

\* C8: once the page is initialised the navbar has its shadow if and only if
\* the scroll offset is above 50, also before the first scroll event.
C8_ShadowIffScrolledPast ==
    domReady => (boxShadow = ShadowStyle <=> scrollY > 50)

C10_ClosedKeysNoOpCloseKeepsIndex ==
    [][/\ \A key \in Keys :
             (~modalActive /\ KeyDown(key)) => UNCHANGED modalVars
       /\ (modalActive /\ (CloseClick \/ KeyDown("Escape"))) =>
             (~modalActive' /\ currentIndex' = currentIndex)]_vars

C10_ClosedAfterOpen ==
    /\ ~modalActive
    /\ modalTitle = ItemTitle(1)
    /\ currentIndex = 1
    /\ navOps = Lost
====
